---- MODULE Spec2Model ----
(***************************************************************************)
(* The chat relay of chat_service_rust: the server's accept / reap /       *)
(* dispatch loop with its bounded message store (src/src/bin/server.rs),   *)
(* the per-connection handler tasks, and the interactive client            *)
(* (src/src/bin/client.rs, src/client/src/main.rs).                        *)
(*                                                                         *)
(* Text is modelled as a sequence of one-character strings, so that        *)
(* splitting, joining, trimming and formatting are computed, not assumed.  *)
(***************************************************************************)
EXTENDS Integers, Sequences, FiniteSets, TLC

\* ------------------------------------------------------------------ bounds

\* Connections the model lets peers open in one run (ids 1..NConns, in
\* connection order).
NConns == 3

\* I/O failures (of the server's reads and writes, of the client's calls)
\* the model lets happen in one run.
MaxFaults == 1

\* Longest raw line the parser is exercised on in SpecParse.
MaxLineLen == 5

\* Longest snapshot the composer is exercised on in SpecCompose.
MaxSnap == 3

\* --------------------------------------------------------- program constants

\* server.rs:10  const MAX_MESSAGES: usize = 100
MAX_MESSAGES == 100

\* The connection ids: those peers open in a run, and one more for the
\* connection that waits at the listener in InitReap.
Conns == 1..(NConns + 1)

\* The interactive client processes of the model; every other peer of the
\* server is a PeerConnect.
Clients == {1}

\* ------------------------------------------------------------------- text

SEP == <<":", " ">>

NL == <<"\n">>

YOU == <<"y", "o", "u">>

\* server.rs:70  b"Received an empty message!"
DIAG == <<"R","e","c","e","i","v","e","d"," ","a","n"," ","e","m","p","t","y"," ",
          "m","e","s","s","a","g","e","!">>

\* Does pat occur in s at position i (1-based)?
MatchAt(s, pat, i) ==
    /\ i + Len(pat) - 1 <= Len(s)
    /\ \A j \in 1..Len(pat) : s[i + j - 1] = pat[j]

\* str::find as the splitter uses it: scan left to right from position i,
\* 0 when there is no match.
RECURSIVE FindFrom(_, _, _)
FindFrom(s, pat, i) ==
    IF i + Len(pat) - 1 > Len(s) THEN 0
    ELSE IF MatchAt(s, pat, i) THEN i
    ELSE FindFrom(s, pat, i + 1)

\* str::split(pat): the pieces between successive non-overlapping matches,
\* found left to right; always at least one piece (the whole string when
\* there is no match, the empty string for the empty string).
RECURSIVE Split(_, _)
Split(s, pat) ==
    LET i == FindFrom(s, pat, 1) IN
    IF i = 0 THEN <<s>>
    ELSE <<SubSeq(s, 1, i - 1)>> \o Split(SubSeq(s, i + Len(pat), Len(s)), pat)

\* The pieces lo..hi of parts with sep between each two (halving the range
\* keeps the evaluation shallow on a long list).
RECURSIVE JoinRange(_, _, _, _)
JoinRange(parts, sep, lo, hi) ==
    IF lo > hi THEN <<>>
    ELSE IF lo = hi THEN parts[lo]
    ELSE LET mid == (lo + hi) \div 2 IN
         JoinRange(parts, sep, lo, mid) \o sep \o JoinRange(parts, sep, mid + 1, hi)

\* [T]::join(sep): the pieces with sep between each two, nothing for none.
Join(parts, sep) == JoinRange(parts, sep, 1, Len(parts))

IsWhite(ch) == ch \in {" ", "\n", "\r", "\t"}

RECURSIVE TrimStart(_)
TrimStart(s) ==
    IF s # <<>> /\ IsWhite(Head(s)) THEN TrimStart(Tail(s)) ELSE s

RECURSIVE TrimEnd(_)
TrimEnd(s) ==
    IF s # <<>> /\ IsWhite(s[Len(s)]) THEN TrimEnd(SubSeq(s, 1, Len(s) - 1)) ELSE s

\* str::trim
Trim(s) == TrimEnd(TrimStart(s))

\* ------------------------------------------------------------ server types

\* server.rs:14  struct Message { username, message } and Message::new
NewMessage(username, message) == [username |-> username, message |-> message]

\* server.rs:36  impl Display for Message: "{username}: {message}"
Display(m) == m.username \o SEP \o m.message

\* server.rs:43  enum MessageResult, one record shape for every variant
NothingReceived == [kind |-> "NothingReceived", username |-> <<>>, message |-> <<>>, error |-> "none"]

NoUsername == [kind |-> "NoUsername", username |-> <<>>, message |-> <<>>, error |-> "none"]

NoMessage(username) == [kind |-> "NoMessage", username |-> username, message |-> <<>>, error |-> "none"]

MessageOf(m) == [kind |-> "Message", username |-> m.username, message |-> m.message, error |-> "none"]

Error(kind) == [kind |-> "Error", username |-> <<>>, message |-> <<>>, error |-> kind]

\* No outcome yet: the task has not returned.
Pending == [kind |-> "Pending", username |-> <<>>, message |-> <<>>, error |-> "none"]

\* The io::ErrorKind values a read on the connection fails with in the model
\* (ConnectionReset has no line of its own in the log table).
ReadErrors == {"ConnectionReset"}

\* The io::ErrorKind a write on the connection fails with in the model (it
\* has a line in the log table).
WriteErrors == {"BrokenPipe"}

\* Results of one write_all: "ok" or the error kind.
WriteOutcomes == {"ok"} \cup WriteErrors

\* ------------------------------------------------------------ the parser

\* What `receiver.lines().next_line().await` returns on the bytes buf the peer
\* has written, fin saying the peer has closed its side: the text before the
\* first newline, without the newline and without one "\r" before it; at
\* end-of-stream the rest of the bytes, or none when there are none.  The
\* read blocks ("wait") while there is neither a newline nor end-of-stream.
next_line(buf, fin) ==
    LET i == FindFrom(buf, NL, 1) IN
    IF i > 0 THEN
        LET raw == SubSeq(buf, 1, i - 1) IN
        [tag |-> "line",
         line |-> IF raw # <<>> /\ raw[Len(raw)] = "\r"
                  THEN SubSeq(raw, 1, Len(raw) - 1) ELSE raw,
         error |-> "none"]
    ELSE IF ~fin THEN [tag |-> "wait", line |-> <<>>, error |-> "none"]
    ELSE IF buf = <<>> THEN [tag |-> "eof", line |-> <<>>, error |-> "none"]
    ELSE [tag |-> "line", line |-> buf, error |-> "none"]

\* A failed read.
ReadFailed(kind) == [tag |-> "err", line |-> <<>>, error |-> kind]

\* Faulty variant of read_message: the content is the second section alone
\* (`sections.next()` for the collect and join).
read_message_second(rd, wr) ==
    IF rd.tag = "eof" THEN [result |-> NothingReceived, out |-> <<>>]
    ELSE IF rd.tag = "err" THEN [result |-> Error(rd.error), out |-> <<>>]
    ELSE
        LET sections == Split(rd.line, SEP)
            username == Head(sections)
            message  == IF Len(sections) > 1 THEN sections[2] ELSE <<>>
        IN  IF message = <<>>
            THEN [result |-> NoMessage(username), out |-> <<>>]
            ELSE [result |-> MessageOf(NewMessage(username, message)), out |-> <<>>]

\* server.rs:52  read_message, on the result rd of the line read and the
\* result wr that a write of the diagnostic has: the MessageResult and the
\* bytes written to the connection.
read_message(rd, wr) ==
    IF rd.tag = "eof" THEN [result |-> NothingReceived, out |-> <<>>]
    ELSE IF rd.tag = "err" THEN [result |-> Error(rd.error), out |-> <<>>]
    ELSE
        LET sections == Split(rd.line, SEP) IN
        IF sections = <<>> THEN
            \* let Some(username) = sections.next() else { ... }
            IF wr # "ok" THEN [result |-> Error(wr), out |-> <<>>]
            ELSE [result |-> NoUsername, out |-> DIAG]
        ELSE
            LET username == Head(sections)
                message  == Join(Tail(sections), SEP)
            IN  IF message = <<>>
                THEN [result |-> NoMessage(username), out |-> <<>>]
                ELSE [result |-> MessageOf(NewMessage(username, message)), out |-> <<>>]

\* ---------------------------------------------------------- the composer

\* Faulty variant of RenderFor: the comparison inverted.
RenderForOthers(m, username) ==
    IF m.username # username THEN YOU \o SEP \o m.message ELSE Display(m)

\* server.rs:99  the closure mapped over the snapshot
RenderFor(m, username) ==
    IF m.username = username THEN YOU \o SEP \o m.message ELSE Display(m)

\* Faulty variant of ComposeResponse: every line ended by a newline, not joined by one.
ComposeTerminated(msgs, username) ==
    Join([i \in 1..Len(msgs) |-> RenderFor(msgs[i], username) \o NL], <<>>)

\* server.rs:97  messages.iter().map(..).collect::<Vec<String>>().join("\n")
ComposeResponse(msgs, username) ==
    Join([i \in 1..Len(msgs) |-> RenderFor(msgs[i], username)], NL)

\* server.rs:90  send_messages, wr the result of write_all: the io::Result
\* ("ok" or the error kind) and the bytes that reached the connection (all
\* of the response, or a cut prefix of it when the write fails).
send_messages(msgs, username, wr) ==
    LET response == ComposeResponse(msgs, username) IN
    IF wr = "ok" THEN [res |-> "ok", out |-> response]
    ELSE [res |-> wr, out |-> SubSeq(response, 1, Len(response) \div 2)]

\* ------------------------------------------------------------- the store

\* Faulty variant of EvictOverflow: an `if` for the `while`, one removal at most.
EvictOnce(msgs) ==
    IF Len(msgs) > MAX_MESSAGES THEN Tail(msgs) ELSE msgs

\* Faulty variant of EvictOverflow: `pop()` for `remove(0)`, the newest goes first.
RECURSIVE EvictNewest(_)
EvictNewest(msgs) ==
    IF Len(msgs) > MAX_MESSAGES THEN EvictNewest(SubSeq(msgs, 1, Len(msgs) - 1)) ELSE msgs

\* server.rs:172  while messages.len() > MAX_MESSAGES { messages.remove(0); }
RECURSIVE EvictOverflow(_)
EvictOverflow(msgs) ==
    IF Len(msgs) > MAX_MESSAGES THEN EvictOverflow(Tail(msgs)) ELSE msgs

\* server.rs:122  the line eprintln! writes for an error kind
LogLine(kind) ==
    CASE kind = "BrokenPipe"  -> "A pipe closed unexpectedly"
      [] kind = "InvalidData" -> "Received invalid data"
      [] kind = "TimedOut"    -> "Request timed out"
      [] kind = "Interrupted" -> "Receiving data was interrupted"
      [] kind = "Unsupported" -> "Receiving data over internet is not supported"
      [] kind = "OutOfMemory" -> "Request used too much memory"
      [] kind = "Other"       -> "Unexpected error occured"
      [] OTHER                -> "Unhandled error occured"

\* Vec::remove(i), i 0-based
RemoveAt(s, i) == SubSeq(s, 1, i) \o SubSeq(s, i + 2, Len(s))

\* Faulty variant of ApplyOutcome: the task's io::Error unwrapped too, so an Error
\* outcome panics in the loop.
ApplyOutcomeUnwrap(st, res) ==
    IF res.kind \in {"JoinError", "Error"} THEN [st EXCEPT !.alive = FALSE]
    ELSE IF res.kind = "Message"
    THEN [st EXCEPT !.messages = Append(@, NewMessage(res.username, res.message))]
    ELSE st

\* Faulty variant of ApplyOutcome: a request without content is stored too,
\* as a message with empty content.
ApplyOutcomeStoresEmpty(st, res) ==
    IF res.kind = "JoinError" THEN [st EXCEPT !.alive = FALSE]
    ELSE IF res.kind = "Error" THEN [st EXCEPT !.log = Append(@, LogLine(res.error))]
    ELSE IF res.kind \in {"Message", "NoMessage"}
    THEN [st EXCEPT !.messages = Append(@, NewMessage(res.username, res.message))]
    ELSE st

\* Faulty variant of ApplyOutcome: the message goes to the front of the store.
ApplyOutcomeFront(st, res) ==
    IF res.kind = "JoinError" THEN [st EXCEPT !.alive = FALSE]
    ELSE IF res.kind = "Error" THEN [st EXCEPT !.log = Append(@, LogLine(res.error))]
    ELSE IF res.kind = "Message"
    THEN [st EXCEPT !.messages = <<NewMessage(res.username, res.message)>> \o @]
    ELSE st

\* server.rs:121  `task.await.unwrap()` and the match on the task's result:
\* awaiting the handle of a task that panicked gives a JoinError, and the
\* unwrap then panics in the loop.
ApplyOutcome(st, res) ==
    IF res.kind = "JoinError" THEN [st EXCEPT !.alive = FALSE]
    ELSE IF res.kind = "Error" THEN [st EXCEPT !.log = Append(@, LogLine(res.error))]
    ELSE IF res.kind = "Message"
    THEN [st EXCEPT !.messages = Append(@, NewMessage(res.username, res.message))]
    ELSE st

\* JoinHandle::is_finished: the task has returned (pcs: each task's position)
is_finished(pcs, t) == pcs[t] = "done"

\* Faulty variant of ReapFrom: the index advances after a removal too, so the
\* task that moved into the freed position is not looked at.
RECURSIVE ReapFromSkipping(_, _, _, _)
ReapFromSkipping(st, i, pcs, outs) ==
    IF ~st.alive \/ i >= Len(st.tasks) THEN st
    ELSE IF ~is_finished(pcs, st.tasks[i + 1]) THEN ReapFromSkipping(st, i + 1, pcs, outs)
    ELSE LET task == st.tasks[i + 1]
             removed == [st EXCEPT !.tasks = RemoveAt(@, i)]
         IN  ReapFromSkipping(ApplyOutcome(removed, outs[task]), i + 1, pcs, outs)

\* Faulty variant of ReapFrom: the outcome of a finished task is applied
\* through a borrow of its handle and the handle stays in the list.
RECURSIVE ReapFromKeeps(_, _, _, _)
ReapFromKeeps(st, i, pcs, outs) ==
    IF ~st.alive \/ i >= Len(st.tasks) THEN st
    ELSE IF ~is_finished(pcs, st.tasks[i + 1]) THEN ReapFromKeeps(st, i + 1, pcs, outs)
    ELSE ReapFromKeeps(ApplyOutcome(st, outs[st.tasks[i + 1]]), i + 1, pcs, outs)

\* server.rs:113  receive_messages: the while loop at index i (0-based) over
\* st = [tasks, messages, log, alive]; pcs gives each task's position and outs what
\* awaiting its handle returns.
RECURSIVE ReapFrom(_, _, _, _)
ReapFrom(st, i, pcs, outs) ==
    IF ~st.alive \/ i >= Len(st.tasks) THEN st
    ELSE IF ~is_finished(pcs, st.tasks[i + 1]) THEN ReapFrom(st, i + 1, pcs, outs)
    ELSE LET task == st.tasks[i + 1]
             removed == [st EXCEPT !.tasks = RemoveAt(@, i)]
         IN  ReapFrom(ApplyOutcome(removed, outs[task]), i, pcs, outs)

\* server.rs:113  receive_messages(&mut tasks, &mut messages)
receive_messages(st, pcs, outs) == ReapFrom(st, 0, pcs, outs)

\* ------------------------------------------------------------------ state

VARIABLES
    messages,   \* server: the message store (main's `messages`)
    tasks,      \* server: the pending handler tasks, by connection (main's `tasks`)
    log,        \* server: the lines written by eprintln! in receive_messages
    running,    \* server: the loop of main has not panicked
    hpc,        \* handler task of a connection: "none", "read", "send", "done"
    snapshot,   \* handler task: its `messages_to_send`
    req,        \* handler task: what read_message returned, kept for the send
    outcome,    \* handler task: the MessageResult it returned
    backlog,    \* listener: connections made and not yet accepted, in order
    nconn,      \* connections made so far
    owner,      \* connection: the client that made it, 0 for another peer
    c2s,        \* connection: the bytes its peer has written
    cfin,       \* connection: its peer has closed
    s2c,        \* connection: the bytes the server has written
    sclosed,    \* connection: the server has dropped its TcpStream
    cpc,        \* client: "prompt", "send", "recv", "dead" (panicked)
    cconn,      \* client: Client::connection, 0 for None
    cmsg,       \* client: the trimmed message of this iteration
    cgot,       \* client: `received`, what receive_messages returned
    faults      \* I/O failures so far

vars == <<messages, tasks, log, running, hpc, snapshot, req, outcome, backlog, nconn, owner,
          c2s, cfin, s2c, sclosed, cpc, cconn, cmsg, cgot, faults>>

serverVars == <<messages, tasks, log, running>>

handlerVars == <<hpc, snapshot, req, outcome>>

netVars == <<backlog, nconn, owner, c2s, cfin, s2c, sclosed>>

clientVars == <<cpc, cconn, cmsg, cgot>>

\* ----------------------------------------------------------------- inputs

DigitChar(d) == <<"0", "1", "2", "3", "4", "5", "6", "7", "8", "9">>[d + 1]

\* The decimal digits of n.
RECURSIVE Digits(_)
Digits(n) == IF n < 10 THEN <<DigitChar(n)>> ELSE Digits(n \div 10) \o <<DigitChar(n % 10)>>

\* The store after n earlier requests "a: 1", "c: 2", "a: 3", ... have been
\* served and reaped: message i is numbered i and sent by a or c in turn.
Filler(n) ==
    [i \in 1..n |-> NewMessage(IF i % 2 = 1 THEN <<"a">> ELSE <<"c">>, Digits(i))]

\* The store sizes a run starts from: empty, one below the capacity and at
\* the capacity.
InitSizes == {0, MAX_MESSAGES - 1, MAX_MESSAGES}

\* What the user types at "Enter your username: " (client main.rs:119).
UsernameInput(k) == <<" ", "b", "\n">>

\* client main.rs:121,124  Client::new(username.trim().to_owned(), ..)
client_username(k) == Trim(UsernameInput(k))

\* What the user types at the message prompt: just enter, or a message.
StdinLines == { <<"\n">>, <<" ", "h", "i", " ", "\n">> }

\* What another peer sends on connecting: nothing yet, or the line of a
\* client of user c.
PeerInputs ==
    { [bytes |-> <<>>, fin |-> FALSE],
      [bytes |-> <<"c", ":", " ", "y", "o", "\n">>, fin |-> FALSE] }

\* ------------------------------------------------------------------- Init

IdleHandlers ==
    /\ hpc = [c \in Conns |-> "none"]
    /\ snapshot = [c \in Conns |-> <<>>]
    /\ req = [c \in Conns |-> Pending]
    /\ outcome = [c \in Conns |-> Pending]

IdleNet ==
    /\ backlog = <<>>
    /\ nconn = 0
    /\ owner = [c \in Conns |-> 0]
    /\ c2s = [c \in Conns |-> <<>>]
    /\ cfin = [c \in Conns |-> FALSE]
    /\ s2c = [c \in Conns |-> <<>>]
    /\ sclosed = [c \in Conns |-> FALSE]

\* client main.rs:124  Client::new: connection None
IdleClients ==
    /\ cpc = [k \in Clients |-> "prompt"]
    /\ cconn = [k \in Clients |-> 0]
    /\ cmsg = [k \in Clients |-> <<>>]
    /\ cgot = [k \in Clients |-> <<>>]

\* server.rs:143  no tasks; the store as left by the requests served so far.
Init ==
    /\ messages \in {Filler(n) : n \in InitSizes}
    /\ tasks = <<>>
    /\ log = <<>>
    /\ running = TRUE
    /\ IdleHandlers
    /\ IdleNet
    /\ IdleClients
    /\ faults = 0

\* An I/O call fails: one more failure, while the model allows one.
Fault ==
    /\ faults < MaxFaults
    /\ faults' = faults + 1

\* ------------------------------------------------------------ the clients

\* TcpStream::connect succeeding for process k (0: a peer that is not a
\* client): the next connection, queued at the listener.
Connect(c, k) ==
    /\ c = nconn + 1
    /\ c <= NConns
    /\ nconn' = c
    /\ owner' = [owner EXCEPT ![c] = k]
    /\ backlog' = Append(backlog, c)

\* client main.rs:128  read_input_line at the prompt, then message.trim().
\* A failed read of stdin prints and continues with the next iteration.
ClientInput(k) ==
    /\ cpc[k] = "prompt"
    /\ \E raw \in StdinLines :
        /\ cpc' = [cpc EXCEPT ![k] = "send"]
        /\ cmsg' = [cmsg EXCEPT ![k] = Trim(raw)]
        /\ cgot' = [cgot EXCEPT ![k] = <<>>]
    /\ UNCHANGED <<cconn, faults, serverVars, handlerVars, netVars>>

\* client main.rs:49  writeln!(connection, "{}: {message}", self.username)
RequestLine(k, message) == client_username(k) \o SEP \o message \o NL

\* client main.rs:41  Client::send_message: open the connection if there is
\* none, then write the line.
ClientSend(k) ==
    /\ cpc[k] = "send"
    /\ \E c \in Conns :
        /\ IF cconn[k] = 0
           THEN Connect(c, k)
           ELSE c = cconn[k] /\ UNCHANGED <<backlog, nconn, owner>>
        /\ cconn' = [cconn EXCEPT ![k] = c]
        /\ c2s' = [c2s EXCEPT ![c] = @ \o RequestLine(k, cmsg[k])]
    /\ cpc' = [cpc EXCEPT ![k] = "recv"]
    /\ UNCHANGED <<cmsg, cgot, cfin, s2c, sclosed, faults, serverVars, handlerVars>>

\* client main.rs:142  send_message failing: at the connect (no connection
\* is held) or at the write (the connection dies with the process); every
\* error kind panics.
ClientSendFails(k) ==
    /\ cpc[k] = "send"
    /\ Fault
    /\ \/ UNCHANGED <<cconn, netVars>>
       \/ \E c \in Conns :
            /\ cconn[k] = 0
            /\ Connect(c, k)
            /\ cconn' = [cconn EXCEPT ![k] = c]
            /\ cfin' = [cfin EXCEPT ![c] = TRUE]
            /\ UNCHANGED <<c2s, s2c, sclosed>>
    /\ cpc' = [cpc EXCEPT ![k] = "dead"]
    /\ UNCHANGED <<cmsg, cgot, serverVars, handlerVars>>

\* Faulty variant of close_connection: the connection is flushed and kept.
keep_connection(conn) == conn

\* client main.rs:31  Client::close_connection
close_connection(conn) == 0

\* client main.rs:55,166,186  Client::receive_messages on the open connection:
\* read_to_string returns at end-of-stream, when the server has closed; the
\* text is printed and the connection closed.
ClientRecv(k) ==
    /\ cpc[k] = "recv"
    /\ cconn[k] # 0
    /\ sclosed[cconn[k]]
    /\ cgot' = [cgot EXCEPT ![k] = s2c[cconn[k]]]
    /\ cconn' = [cconn EXCEPT ![k] = close_connection(@)]
    /\ cfin' = [cfin EXCEPT ![cconn[k]] = TRUE]
    /\ cpc' = [cpc EXCEPT ![k] = "prompt"]
    /\ UNCHANGED <<cmsg, backlog, nconn, owner, c2s, s2c, sclosed, faults, serverVars,
                   handlerVars>>

\* client main.rs:167  receive_messages failing: every error kind panics, and
\* the connection dies with the process.
ClientRecvFails(k) ==
    /\ cpc[k] = "recv"
    /\ cconn[k] # 0
    /\ Fault
    /\ cfin' = [cfin EXCEPT ![cconn[k]] = TRUE]
    /\ cpc' = [cpc EXCEPT ![k] = "dead"]
    /\ UNCHANGED <<cconn, cmsg, cgot, backlog, nconn, owner, c2s, s2c, sclosed,
                   serverVars, handlerVars>>

\* Another peer connects and sends its bytes.
PeerConnect ==
    /\ \E c \in Conns, p \in PeerInputs :
        /\ Connect(c, 0)
        /\ c2s' = [c2s EXCEPT ![c] = p.bytes]
        /\ cfin' = [cfin EXCEPT ![c] = p.fin]
    /\ UNCHANGED <<s2c, sclosed, faults, clientVars, serverVars, handlerVars>>

\* ------------------------------------------------------------- the server

\* Faulty variant of Accept: the tasks are handed a shared handle on the
\* loop's store instead of a copy, so every live task sees the loop's pushes
\* and removals.
AcceptSharedStore ==
    /\ running
    /\ backlog # <<>>
    /\ LET c == Head(backlog)
           reaped == receive_messages([tasks |-> tasks, messages |-> messages,
                                       log |-> log, alive |-> TRUE], hpc, outcome)
           kept == EvictOverflow(reaped.messages)
       IN  /\ backlog' = Tail(backlog)
           /\ log' = reaped.log
           /\ running' = reaped.alive
           /\ messages' = kept
           /\ snapshot' = [x \in Conns |-> IF x = c \/ hpc[x] # "none" THEN kept ELSE snapshot[x]]
           /\ tasks' = Append(reaped.tasks, c)
           /\ hpc' = [hpc EXCEPT ![c] = "read"]
           /\ UNCHANGED <<cfin, sclosed>>
    /\ UNCHANGED <<req, outcome, nconn, owner, c2s, s2c, faults, clientVars>>

\* Faulty variant of Accept: the copy for the new task is made right after
\* the reap, before the eviction loop.
AcceptCopiesBeforeEvict ==
    /\ running
    /\ backlog # <<>>
    /\ LET c == Head(backlog)
           reaped == receive_messages([tasks |-> tasks, messages |-> messages,
                                       log |-> log, alive |-> TRUE], hpc, outcome)
           kept == EvictOverflow(reaped.messages)
       IN  /\ backlog' = Tail(backlog)
           /\ log' = reaped.log
           /\ running' = reaped.alive
           /\ messages' = kept
           /\ snapshot' = [snapshot EXCEPT ![c] = reaped.messages]
           /\ tasks' = Append(reaped.tasks, c)
           /\ hpc' = [hpc EXCEPT ![c] = "read"]
           /\ UNCHANGED <<cfin, sclosed>>
    /\ UNCHANGED <<req, outcome, nconn, owner, c2s, s2c, faults, clientVars>>

\* Faulty variant of Accept: the pending list is capped; with two tasks left
\* after the reap the oldest one is aborted and dropped to make room.
AcceptCapped ==
    /\ running
    /\ backlog # <<>>
    /\ LET c == Head(backlog)
           reaped == receive_messages([tasks |-> tasks, messages |-> messages,
                                       log |-> log, alive |-> TRUE], hpc, outcome)
           kept == EvictOverflow(reaped.messages)
           room == IF Len(reaped.tasks) >= 2 THEN Tail(reaped.tasks) ELSE reaped.tasks
       IN  /\ backlog' = Tail(backlog)
           /\ log' = reaped.log
           /\ running' = reaped.alive
           /\ messages' = kept
           /\ snapshot' = [snapshot EXCEPT ![c] = kept]
           /\ tasks' = Append(room, c)
           /\ hpc' = [hpc EXCEPT ![c] = "read"]
           /\ UNCHANGED <<cfin, sclosed>>
    /\ UNCHANGED <<req, outcome, nconn, owner, c2s, s2c, faults, clientVars>>

\* server.rs:162  one iteration of the loop whose accept succeeds: reap the
\* finished tasks, evict, snapshot, spawn the handler of the connection.
Accept ==
    /\ running
    /\ backlog # <<>>
    /\ LET c == Head(backlog)
           reaped == receive_messages([tasks |-> tasks, messages |-> messages,
                                       log |-> log, alive |-> TRUE], hpc, outcome)
           kept == EvictOverflow(reaped.messages)
       IN  /\ backlog' = Tail(backlog)
           /\ log' = reaped.log
           /\ running' = reaped.alive
           /\ IF reaped.alive
              THEN /\ messages' = kept
                   /\ snapshot' = [snapshot EXCEPT ![c] = kept]
                   /\ tasks' = Append(reaped.tasks, c)
                   /\ hpc' = [hpc EXCEPT ![c] = "read"]
                   /\ UNCHANGED <<cfin, sclosed>>
              ELSE \* the process dies in receive_messages: every socket closes
                   /\ messages' = reaped.messages
                   /\ tasks' = reaped.tasks
                   /\ sclosed' = [x \in Conns |-> TRUE]
                   /\ UNCHANGED <<snapshot, hpc, cfin>>
    /\ UNCHANGED <<req, outcome, nconn, owner, c2s, s2c, faults, clientVars>>

\* Faulty variant of AcceptFails: the reap and the eviction come before the
\* test of the accept's result, so a failed iteration does them too.
AcceptFailsReaps ==
    /\ running
    /\ Fault
    /\ LET reaped == receive_messages([tasks |-> tasks, messages |-> messages,
                                       log |-> log, alive |-> TRUE], hpc, outcome)
       IN  /\ messages' = EvictOverflow(reaped.messages)
           /\ tasks' = reaped.tasks
           /\ log' = reaped.log
           /\ running' = reaped.alive
    /\ UNCHANGED <<handlerVars, netVars, clientVars>>

\* server.rs:164  an iteration whose accept fails: continue.
AcceptFails ==
    /\ running
    /\ Fault
    /\ UNCHANGED <<serverVars, handlerVars, netVars, clientVars>>

\* Faulty variant of Return: the task's connection outlives the task.
ReturnKeepsOpen(c, res) ==
    /\ hpc' = [hpc EXCEPT ![c] = "done"]
    /\ outcome' = [outcome EXCEPT ![c] = res]
    /\ UNCHANGED sclosed

\* The task of connection c returns res: the result is kept for the reap and
\* the connection, owned by the task, is dropped.
Return(c, res) ==
    /\ hpc' = [hpc EXCEPT ![c] = "done"]
    /\ outcome' = [outcome EXCEPT ![c] = res]
    /\ sclosed' = [sclosed EXCEPT ![c] = TRUE]

\* What the read of the line can give now: a failure, or what has arrived.
ReadResults(c) ==
    {ReadFailed(e) : e \in ReadErrors}
        \cup (IF next_line(c2s[c], cfin[c]).tag = "wait" THEN {} ELSE {next_line(c2s[c], cfin[c])})

\* server.rs:182  the task up to the end of read_message
HandlerRead(c) ==
    /\ running
    /\ hpc[c] = "read"
    /\ \E rd \in ReadResults(c), wr \in WriteOutcomes :
        LET r == read_message(rd, wr) IN
        /\ IF r.result.kind = "Error" THEN Fault ELSE UNCHANGED faults
        /\ s2c' = [s2c EXCEPT ![c] = @ \o r.out]
        /\ IF r.result.kind \in {"Message", "NoMessage"}
           THEN /\ hpc' = [hpc EXCEPT ![c] = "send"]
                /\ req' = [req EXCEPT ![c] = r.result]
                /\ UNCHANGED <<outcome, sclosed>>
           ELSE /\ Return(c, r.result)
                /\ UNCHANGED req
    /\ UNCHANGED <<snapshot, backlog, nconn, owner, c2s, cfin, serverVars, clientVars>>

\* Faulty variant of HandlerSend: the response is composed from the store as
\* it is when the task sends, not from the task's snapshot.
HandlerSendFromStore(c) ==
    /\ running
    /\ hpc[c] = "send"
    /\ \E wr \in WriteOutcomes :
        LET w == send_messages(messages, req[c].username, wr) IN
        /\ IF w.res # "ok" THEN Fault ELSE UNCHANGED faults
        /\ s2c' = [s2c EXCEPT ![c] = @ \o w.out]
        /\ Return(c, IF w.res # "ok" THEN Error(w.res)
                     ELSE IF req[c].kind = "Message" THEN req[c]
                     ELSE NoMessage(req[c].username))
    /\ UNCHANGED <<snapshot, req, backlog, nconn, owner, c2s, cfin, serverVars, clientVars>>

\* Faulty variant of HandlerSend: the result of send_messages is not
\* propagated, the task returns its request's Message also when the write
\* failed.
HandlerSendIgnoresError(c) ==
    /\ running
    /\ hpc[c] = "send"
    /\ \E wr \in WriteOutcomes :
        LET w == send_messages(snapshot[c], req[c].username, wr) IN
        /\ IF w.res # "ok" THEN Fault ELSE UNCHANGED faults
        /\ s2c' = [s2c EXCEPT ![c] = @ \o w.out]
        /\ Return(c, IF req[c].kind = "Message" THEN req[c]
                     ELSE NoMessage(req[c].username))
    /\ UNCHANGED <<snapshot, req, backlog, nconn, owner, c2s, cfin, serverVars, clientVars>>

\* Faulty variant of HandlerSend: the request's own message is echoed, the
\* response being composed from the snapshot with that message added.
HandlerSendEchoes(c) ==
    /\ running
    /\ hpc[c] = "send"
    /\ \E wr \in WriteOutcomes :
        LET own == IF req[c].kind = "Message"
                   THEN <<NewMessage(req[c].username, req[c].message)>> ELSE <<>>
            w == send_messages(snapshot[c] \o own, req[c].username, wr)
        IN
        /\ IF w.res # "ok" THEN Fault ELSE UNCHANGED faults
        /\ s2c' = [s2c EXCEPT ![c] = @ \o w.out]
        /\ Return(c, IF w.res # "ok" THEN Error(w.res)
                     ELSE IF req[c].kind = "Message" THEN req[c]
                     ELSE NoMessage(req[c].username))
    /\ UNCHANGED <<snapshot, req, backlog, nconn, owner, c2s, cfin, serverVars, clientVars>>

\* server.rs:197  the task from send_messages to its end
HandlerSend(c) ==
    /\ running
    /\ hpc[c] = "send"
    /\ \E wr \in WriteOutcomes :
        LET w == send_messages(snapshot[c], req[c].username, wr) IN
        /\ IF w.res # "ok" THEN Fault ELSE UNCHANGED faults
        /\ s2c' = [s2c EXCEPT ![c] = @ \o w.out]
        /\ Return(c, IF w.res # "ok" THEN Error(w.res)
                     ELSE IF req[c].kind = "Message" THEN req[c]
                     ELSE NoMessage(req[c].username))
    /\ UNCHANGED <<snapshot, req, backlog, nconn, owner, c2s, cfin, serverVars, clientVars>>

Next ==
    \/ \E k \in Clients : ClientInput(k)
    \/ \E k \in Clients : ClientSend(k)
    \/ \E k \in Clients : ClientSendFails(k)
    \/ \E k \in Clients : ClientRecv(k)
    \/ \E k \in Clients : ClientRecvFails(k)
    \/ PeerConnect
    \/ Accept
    \/ AcceptFails
    \/ \E c \in Conns : HandlerRead(c)
    \/ \E c \in Conns : HandlerSend(c)

Spec == Init /\ [][Next]_vars

\* The client's blocked read_to_string returns once the server has closed.
FairSpec == Spec /\ \A k \in Clients : WF_vars(ClientRecv(k))

\* --------------------------------------------- the handler on chosen inputs

\* All sequences over S of length at most n.
SeqsUpTo(S, n) == UNION {[1..m -> S] : m \in 0..n}

\* The server with connection 1 accepted and its handler spawned on the
\* store `store`, the peer having written `bytes` (and closed, if fin), and a
\* second connection waiting at the listener.
Dispatched(store, bytes, fin) ==
    /\ messages = store
    /\ tasks = <<1>>
    /\ log = <<>>
    /\ running = TRUE
    /\ hpc = [c \in Conns |-> IF c = 1 THEN "read" ELSE "none"]
    /\ snapshot = [c \in Conns |-> IF c = 1 THEN store ELSE <<>>]
    /\ req = [c \in Conns |-> Pending]
    /\ outcome = [c \in Conns |-> Pending]
    /\ backlog = <<2>>
    /\ nconn = 2
    /\ owner = [c \in Conns |-> 0]
    /\ c2s = [c \in Conns |-> IF c = 1 THEN bytes ELSE <<>>]
    /\ cfin = [c \in Conns |-> c = 1 /\ fin]
    /\ s2c = [c \in Conns |-> <<>>]
    /\ sclosed = [c \in Conns |-> FALSE]
    /\ IdleClients
    /\ faults = 0

\* The handler's steps and the loop's next iteration, which reaps it.
NextHandler ==
    \/ \E c \in Conns : HandlerRead(c)
    \/ \E c \in Conns : HandlerSend(c)
    \/ Accept

\* The characters of the lines the parser is run on.
ParseAlphabet == {"a", ":", " "}

\* Every line of at most MaxLineLen characters, sent with its newline, or
\* sent without one before the peer closes (nothing at all: no line).
InitParse ==
    \E line \in SeqsUpTo(ParseAlphabet, MaxLineLen), fin \in BOOLEAN :
        Dispatched(Filler(2), IF fin THEN line ELSE line \o NL, fin)

SpecParse == InitParse /\ [][NextHandler]_vars

ComposeUsers == {<<"a">>, <<"b">>}

ComposeContents == {<<"h", "i">>, <<"y", "o">>}

ComposeMessages == {NewMessage(u, m) : u \in ComposeUsers, m \in ComposeContents}

\* Every store of at most MaxSnap messages, and a request of user a, b or c
\* with or without content.
InitCompose ==
    \E snap \in SeqsUpTo(ComposeMessages, MaxSnap),
       u \in ComposeUsers \cup {<<"c">>},
       m \in {<<>>, <<"h", "i">>} :
        Dispatched(snap, u \o SEP \o m \o NL, FALSE)

SpecCompose == InitCompose /\ [][NextHandler]_vars

\* --------------------------------------------- the reap on chosen pendings

\* What the peer of connection c sends: the message "m<c>" of user c, so
\* that a stored message tells which connection brought it.
Tagged(c) == NewMessage(<<"c">>, <<"m">> \o Digits(c))

TaggedLine(c) == Display(Tagged(c)) \o NL

\* Where a pending task can be when an iteration starts: reading, about to
\* send, or returned with one of the outcomes.
TaskShapes == {"read", "send", "Message", "NoMessage", "Error", "NothingReceived"}

\* The server with connections 1..Len(shape) accepted on the store `store`
\* and none of them reaped yet, the task of connection c being at shape[c],
\* and the remaining connections waiting at the listener.
Pended(store, shape) ==
    LET n == Len(shape)
        At(c) == IF c <= n THEN shape[c] ELSE "none"
    IN  /\ messages = store
        /\ tasks = [c \in 1..n |-> c]
        /\ log = <<>>
        /\ running = TRUE
        /\ hpc = [c \in Conns |-> IF At(c) \in {"none", "read", "send"} THEN At(c) ELSE "done"]
        /\ snapshot = [c \in Conns |-> IF c <= n THEN store ELSE <<>>]
        /\ req = [c \in Conns |->
                    IF At(c) \in {"send", "Message"} THEN MessageOf(Tagged(c))
                    ELSE IF At(c) = "NoMessage" THEN NoMessage(<<"c">>)
                    ELSE Pending]
        /\ outcome = [c \in Conns |->
                        CASE At(c) = "Message" -> MessageOf(Tagged(c))
                          [] At(c) = "NoMessage" -> NoMessage(<<"c">>)
                          [] At(c) = "Error" -> Error("ConnectionReset")
                          [] At(c) = "NothingReceived" -> NothingReceived
                          [] OTHER -> Pending]
        /\ backlog = [i \in 1..(NConns + 1 - n) |-> n + i]
        /\ nconn = NConns + 1
        /\ owner = [c \in Conns |-> 0]
        /\ c2s = [c \in Conns |->
                    IF At(c) = "NothingReceived" THEN <<>>
                    ELSE IF At(c) = "NoMessage" THEN <<"c">> \o SEP \o NL
                    ELSE TaggedLine(c)]
        /\ cfin = [c \in Conns |-> At(c) = "NothingReceived"]
        /\ s2c = [c \in Conns |->
                    IF At(c) \in {"Message", "NoMessage"}
                    THEN ComposeResponse(store, <<"c">>) ELSE <<>>]
        /\ sclosed = [c \in Conns |-> At(c) \notin {"none", "read", "send"}]
        /\ IdleClients
        /\ faults = 0

\* Every pending list of at most NConns tasks in every combination of
\* shapes, on an empty store and on a store one below its capacity.
InitReap ==
    \E shape \in SeqsUpTo(TaskShapes, NConns), n \in {0, MAX_MESSAGES - 1} :
        Pended(Filler(n), shape)

SpecReap == InitReap /\ [][NextHandler]_vars

\* ================================================================= claims

\* The last n elements of s, all of s when it has no more than n.
LastN(s, n) == IF Len(s) <= n THEN s ELSE SubSeq(s, Len(s) - n + 1, Len(s))

\* The messages one reap appends to the store: those returned by the tasks
\* that are pending and finished, in the order of the pending list.
ReapedMessages ==
    LET IsMsg(t) == hpc[t] = "done" /\ outcome[t].kind = "Message"
        ts == SelectSeq(tasks, IsMsg)
    IN  [i \in 1..Len(ts) |-> [username |-> outcome[ts[i]].username,
                               message |-> outcome[ts[i]].message]]

\* The lines one reap logs: one per pending finished task that returned an error.
ReapedErrors ==
    LET IsErr(t) == hpc[t] = "done" /\ outcome[t].kind = "Error"
        ts == SelectSeq(tasks, IsErr)
    IN  [i \in 1..Len(ts) |-> LogLine(outcome[ts[i]].error)]

\* The separator occurs in line at position i.
SepAt(line, i) == i + 1 <= Len(line) /\ line[i] = ":" /\ line[i + 1] = " "

HasSep(line) == \E i \in 1..Len(line) : SepAt(line, i)

\* The position of the first separator of a line that has one.
FirstSep(line) ==
    CHOOSE i \in 1..Len(line) : SepAt(line, i) /\ \A j \in 1..(i - 1) : ~SepAt(line, j)

\* The handler of connection c has read its line without failure: what
\* next_line gave it.
HasRead(c) ==
    /\ hpc[c] \in {"send", "done"}
    /\ ~(hpc[c] = "done" /\ outcome[c].kind = "Error" /\ req[c] = Pending)

LineOf(c) == next_line(c2s[c], cfin[c])

\* No message of snap is by user u.
NoneBy(snap, u) == \A i \in 1..Len(snap) : snap[i].username # u

\* The positions of the newlines of text s, and its k-th line (k >= 1).
NlPos(s) == {i \in 1..Len(s) : s[i] = "\n"}

NthNl(s, k) ==
    IF k = 0 THEN 0
    ELSE IF k > Cardinality(NlPos(s)) THEN Len(s) + 1
    ELSE CHOOSE p \in NlPos(s) : Cardinality({q \in NlPos(s) : q < p}) = k - 1

NthLine(s, k) == SubSeq(s, NthNl(s, k - 1) + 1, NthNl(s, k) - 1)

\* ---- C1
\* C1: in every reachable state of the server the message store holds at
\* most MAX_MESSAGES (100) messages.
C1_StoreBounded == Len(messages) <= MAX_MESSAGES

\* The store is full and its oldest message has been evicted.
C1_Witness ==
    /\ Len(messages) = MAX_MESSAGES
    /\ Head(messages).message = <<"2">>

\* ---- C2
\* The text of the stored messages as they are, one "<username>: <content>"
\* line each.
PlainLines(snap) ==
    Join([i \in 1..Len(snap) |-> snap[i].username \o <<":", " ">> \o snap[i].message],
         <<"\n">>)

\* C2: when a client sent a line with empty content, no I/O failed on the
\* connection and the store at its dispatch held no message of that user,
\* the client's read returns exactly the stored messages, one unmodified
\* line each in store order, on a connection the server has closed, the
\* handler returned NoMessage(username), and a reap appends to the store
\* only the messages of Message outcomes (so nothing for this request).
C2_FetchOnly ==
    [][ /\ \A k \in Clients :
            (/\ cpc[k] = "recv" /\ cpc'[k] = "prompt"
             /\ cmsg[k] = <<>>
             /\ outcome[cconn[k]].kind # "Error"
             /\ NoneBy(snapshot[cconn[k]], <<"b">>))
            => /\ cgot'[k] = PlainLines(snapshot[cconn[k]])
               /\ sclosed[cconn[k]]
               /\ outcome[cconn[k]] = NoMessage(<<"b">>)
        /\ Accept => messages' = LastN(messages \o ReapedMessages, MAX_MESSAGES)
      ]_vars

\* The client has fetched from a full store of other users' messages and
\* got its 100 lines.
C2_Witness ==
    \E k \in Clients, c \in Conns :
        /\ cpc[k] = "prompt" /\ cmsg[k] = <<>> /\ owner[c] = k
        /\ outcome[c] = NoMessage(<<"b">>)
        /\ Len(snapshot[c]) = MAX_MESSAGES
        /\ NoneBy(snapshot[c], <<"b">>)
        /\ cgot[k] = s2c[c] /\ cgot[k] # <<>>
        /\ c \notin {tasks[i] : i \in 1..Len(tasks)}

\* ---- C3
\* C3: the server has closed a connection exactly when its handler task has
\* returned, whatever the outcome, and a client blocked in its read on a
\* connection whose handler has returned gets out of the read.
C3_ClosesAfterHandler ==
    /\ [](\A c \in Conns : sclosed[c] <=> hpc[c] = "done")
    /\ \A k \in Clients :
        (cpc[k] = "recv" /\ hpc[cconn[k]] = "done") ~> (cpc[k] # "recv")

\* The client's read has returned on a connection whose handler failed.
C3_Witness ==
    \E k \in Clients, c \in Conns :
        /\ owner[c] = k /\ cpc[k] = "prompt" /\ cconn[k] = 0
        /\ sclosed[c] /\ outcome[c].kind = "Error"

\* ---- C4
\* C4: for every received line without the separator ": " the parser
\* writes the fixed diagnostic to the connection and returns NoUsername, and
\* the handler composes no history response.
C4_NoSeparator ==
    \A c \in Conns :
        (HasRead(c) /\ LineOf(c).tag = "line" /\ ~HasSep(LineOf(c).line))
        => /\ hpc[c] = "done"
           /\ outcome[c] = NoUsername
           /\ s2c[c] = DIAG

\* ---- C5
\* C5: an empty line, or no line at all before end-of-stream, makes the
\* handler return NothingReceived and write nothing.
C5_NothingReceived ==
    \A c \in Conns :
        (HasRead(c) /\ (LineOf(c).tag = "eof" \/ LineOf(c).line = <<>>))
        => /\ hpc[c] = "done"
           /\ outcome[c] = NothingReceived
           /\ s2c[c] = <<>>

\* ---- C6
\* C6: for every received line with the separator, the username is the text
\* before its first occurrence and the content all the text after it;
\* empty content gives NoMessage(username), other content
\* Message(username, content), and "a: a: a" has content "a: a".
C6_SplitAtFirst ==
    /\ read_message([tag |-> "line", line |-> <<"a", ":", " ", "a", ":", " ", "a">>,
                     error |-> "none"], "ok").result
         = [kind |-> "Message", username |-> <<"a">>,
            message |-> <<"a", ":", " ", "a">>, error |-> "none"]
    /\ \A c \in Conns :
        (HasRead(c) /\ LineOf(c).tag = "line" /\ HasSep(LineOf(c).line))
        => LET line == LineOf(c).line
               i == FirstSep(line)
               username == SubSeq(line, 1, i - 1)
               content == SubSeq(line, i + 2, Len(line))
           IN  req[c] = [kind |-> IF content = <<>> THEN "NoMessage" ELSE "Message",
                         username |-> username, message |-> content,
                         error |-> "none"]

\* The handler has parsed ": : ": no username, and a content that is a
\* separator itself.
C6_Witness ==
    \E c \in Conns :
        /\ hpc[c] = "send"
        /\ LineOf(c).line = <<":", " ", ":", " ">>
        /\ req[c].kind = "Message" /\ req[c].message = <<":", " ">>

\* ---- C7
\* C7: the response the handler writes for requester u over its snapshot
\* has one line per snapshot message, in snapshot order, with newlines
\* between and none at the end: "you: <content>" for a message of u,
\* "<username>: <content>" for any other; for a over [(a,hi),(b,yo)] it is
\* exactly "you: hi\nb: yo".
C7_Response ==
    /\ ComposeResponse(<<[username |-> <<"a">>, message |-> <<"h", "i">>],
                         [username |-> <<"b">>, message |-> <<"y", "o">>]>>, <<"a">>)
         = <<"y", "o", "u", ":", " ", "h", "i", "\n", "b", ":", " ", "y", "o">>
    /\ \A c \in Conns :
        (hpc[c] = "done" /\ outcome[c].kind \in {"NoMessage", "Message"})
        => LET snap == snapshot[c]
               u == outcome[c].username
               text == s2c[c]
           IN  /\ Cardinality(NlPos(text)) = IF snap = <<>> THEN 0 ELSE Len(snap) - 1
               /\ snap = <<>> => text = <<>>
               /\ \A i \in 1..Len(snap) :
                    NthLine(text, i) =
                        (IF snap[i].username = u THEN <<"y", "o", "u">>
                         ELSE snap[i].username) \o <<":", " ">> \o snap[i].message

\* A response of three lines, the middle one the requester's own.
C7_Witness ==
    \E c \in Conns :
        /\ hpc[c] = "done" /\ outcome[c].kind = "NoMessage"
        /\ Len(snapshot[c]) = 3
        /\ snapshot[c][2].username = outcome[c].username
        /\ snapshot[c][1].username # outcome[c].username
        /\ Cardinality(NlPos(s2c[c])) = 2

\* ---- C8
\* C8: the eviction step of an iteration leaves the last MAX_MESSAGES
\* messages of the store as the reap left it, in the same order: it removes
\* from the front only, down to exactly MAX_MESSAGES, and removes nothing
\* from a store of at most MAX_MESSAGES.
C8_EvictFifo ==
    [][ Accept =>
          LET before == receive_messages([tasks |-> tasks, messages |-> messages,
                                          log |-> log, alive |-> TRUE],
                                         hpc, outcome).messages
          IN  /\ messages' = LastN(before, MAX_MESSAGES)
              /\ Len(before) <= MAX_MESSAGES => messages' = before
              /\ Len(before) > MAX_MESSAGES => Len(messages') = MAX_MESSAGES
      ]_vars

\* Two messages have been evicted from the front and the two newest are in
\* the last places.
C8_Witness ==
    /\ Len(messages) = MAX_MESSAGES
    /\ Head(messages).message = <<"3">>
    /\ messages[MAX_MESSAGES - 1].message \in {<<"h", "i">>, <<"y", "o">>}
    /\ messages[MAX_MESSAGES].message \in {<<"h", "i">>, <<"y", "o">>}

\* ---- C9
\* C9: a handler whose read or write fails returns Error and changes no
\* store; the reap logs one line per Error outcome and appends only the
\* messages of Message outcomes; and the loop outlives every outcome: it
\* never panics, so it accepts whenever a connection is waiting.
C9_ErrorsDiscarded ==
    /\ [](running /\ (backlog # <<>> => ENABLED Accept))
    /\ [][ /\ \A c \in Conns :
                (hpc[c] \in {"read", "send"} /\ hpc'[c] # hpc[c] /\ faults' # faults)
                => /\ hpc'[c] = "done"
                   /\ outcome'[c].kind = "Error"
                   /\ messages' = messages
           /\ Accept =>
                /\ log' = log \o ReapedErrors
                /\ messages' = LastN(messages \o ReapedMessages, MAX_MESSAGES)
                /\ \A t \in Conns : hpc[t] = "done" =>
                        t \notin {tasks'[i] : i \in 1..Len(tasks')}
         ]_vars

\* An Error outcome has been reaped and logged, the store is as it was, and
\* the loop has accepted again.
C9_Witness ==
    \E c, d \in Conns :
        /\ outcome[c].kind = "Error"
        /\ c \notin {tasks[i] : i \in 1..Len(tasks)}
        /\ log # <<>>
        /\ running
        /\ d > c /\ hpc[d] = "read"
        /\ messages \in {Filler(n) : n \in InitSizes}

\* ---- C10
\* The number of newlines in s.
NlCount(s) == Cardinality(NlPos(s))

\* C10: the client holds no connection at the prompt nor before its send;
\* the send opens a new connection and writes on it the one line
\* "<username>: <trimmed message>\n"; the receive reads on that same
\* connection, opens none, and closes it; so no connection of a client ever
\* carries more than that one line.
C10_ClientLifecycle ==
    /\ [](\A k \in Clients :
            /\ cpc[k] \in {"prompt", "send"} => cconn[k] = 0
            /\ cmsg[k] = <<>> \/ (~IsWhite(cmsg[k][1]) /\ ~IsWhite(cmsg[k][Len(cmsg[k])]))
            /\ cpc[k] = "recv" =>
                /\ cconn[k] \in Conns
                /\ owner[cconn[k]] = k
                /\ c2s[cconn[k]] = <<"b">> \o <<":", " ">> \o cmsg[k] \o <<"\n">>)
    /\ [](\A c \in Conns :
            owner[c] \in Clients =>
                \/ c2s[c] = <<>>
                \/ NlCount(c2s[c]) = 1 /\ c2s[c][Len(c2s[c])] = "\n")
    /\ [][\A k \in Clients :
            /\ (cpc[k] = "send" /\ cpc'[k] = "recv")
                => (cconn'[k] = nconn + 1 /\ nconn' = nconn + 1)
            /\ (cpc[k] = "recv" /\ cpc'[k] = "prompt")
                => /\ nconn' = nconn
                   /\ cgot'[k] = s2c[cconn[k]]
                   /\ cconn'[k] = 0
                   /\ cfin'[cconn[k]]
         ]_vars

\* The client is at its prompt for the third time: two connections of its
\* own behind it, one line on each, none open.
C10_Witness ==
    \E k \in Clients :
        /\ cpc[k] = "prompt" /\ cconn[k] = 0
        /\ owner[1] = k /\ owner[2] = k
        /\ NlCount(c2s[1]) = 1 /\ NlCount(c2s[2]) = 1
        /\ cfin[1] /\ cfin[2]

\* ---- C11
\* The task of connection c has returned after writing its whole response.
Replied(c) == hpc[c] = "done" /\ outcome[c].kind \in {"Message", "NoMessage"}

\* The connections whose tasks are in the pending list.
PendingSet == {tasks[i] : i \in 1..Len(tasks)}

\* C11: composing a response depends on the snapshot and the requester's
\* username only: any two tasks that composed from equal snapshots for the
\* same username wrote identical responses, whatever the store, the pending
\* list and the other tasks were when each of them composed.
C11_ComposeIndependent ==
    \A c, d \in Conns :
        (/\ Replied(c) /\ Replied(d)
         /\ snapshot[c] = snapshot[d]
         /\ outcome[c].username = outcome[d].username)
        => s2c[c] = s2c[d]

\* Two tasks composed from the same non-empty snapshot for the same user,
\* the second one after the first was reaped and its message stored: the
\* store differed from the snapshot when the second composed.
C11_Witness ==
    \E c, d \in Conns :
        /\ c < d
        /\ Replied(c) /\ Replied(d)
        /\ snapshot[c] = snapshot[d] /\ snapshot[c] # <<>>
        /\ outcome[c].username = outcome[d].username
        /\ c \notin PendingSet /\ d \in PendingSet
        /\ messages # snapshot[d]
        /\ s2c[d] # <<>>

\* ---- C12
\* The pending tasks that have not returned, in the order of the pending list.
StillPending ==
    LET Unfinished(t) == hpc[t] # "done" IN SelectSeq(tasks, Unfinished)

\* C12: the reap of an iteration removes from the pending list exactly the
\* tasks that have returned and keeps the others in their order (the new
\* task is then added at the end); it appends to the store the messages of
\* the removed tasks that returned Message, in list order, logs one line for
\* each that returned Error, in list order, and does nothing for the other
\* outcomes; no returned task is left behind because an earlier one was
\* removed.
C12_ReapOnce ==
    [][Accept =>
        /\ tasks' = Append(StillPending, Head(backlog))
        /\ messages' = LastN(messages \o ReapedMessages, MAX_MESSAGES)
        /\ log' = log \o ReapedErrors
        /\ \A t \in PendingSet : hpc[t] = "done" => t \notin PendingSet'
      ]_vars

\* The pending list was [1 returned Message, 2 not returned, 3 returned
\* Error] on an empty store: after the iteration the store holds exactly the
\* message of 1, the error of 3 is logged and the list is 2 and the new task.
C12_Witness ==
    /\ tasks = <<2, 4>>
    /\ hpc[1] = "done" /\ outcome[1] = MessageOf(Tagged(1))
    /\ hpc[2] # "done"
    /\ hpc[3] = "done" /\ outcome[3].kind = "Error"
    /\ messages = <<Tagged(1)>>
    /\ log = <<LogLine(outcome[3].error)>>

\* ---- C13
\* How often connection c is in the pending list.
TimesPending(c) == Cardinality({i \in 1..Len(tasks) : tasks[i] = c})

\* C13: a task is in the pending list, once, from its dispatch on; it is
\* taken out only by the reap of an accepting iteration and only when it has
\* returned, and the first such reap after its return does take it out; it
\* never comes back; it returns one outcome, which never changes; and a reap
\* applies the outcome of each task it takes out once (the store gains the
\* messages of the Message outcomes, the log the lines of the Error ones).
C13_TaskLifecycle ==
    /\ [](\A c \in Conns :
            /\ hpc[c] \in {"read", "send"} => c \in PendingSet
            /\ c \in PendingSet => hpc[c] # "none"
            /\ TimesPending(c) <= 1
            /\ (hpc[c] = "done") <=> (outcome[c] # Pending))
    /\ [][ /\ \A c \in Conns :
                /\ (hpc[c] = "none" /\ hpc'[c] # "none")
                    => (Accept /\ c = Head(backlog) /\ c \in PendingSet')
                /\ outcome[c] # Pending => (outcome'[c] = outcome[c] /\ hpc'[c] = "done")
                /\ (c \in PendingSet /\ c \notin PendingSet') => (hpc[c] = "done" /\ Accept)
                /\ (c \in PendingSet /\ hpc[c] = "done" /\ Accept) => c \notin PendingSet'
                /\ (c \notin PendingSet /\ hpc[c] # "none") => c \notin PendingSet'
           /\ Accept => /\ messages' = LastN(messages \o ReapedMessages, MAX_MESSAGES)
                        /\ log' = log \o ReapedErrors
         ]_vars

\* A task returned Message and was reaped, its message is the newest of the
\* store, and a later task has returned and waits for the next reap.
C13_Witness ==
    \E c, d \in Conns :
        /\ c < d
        /\ outcome[c].kind = "Message" /\ c \notin PendingSet
        /\ messages # <<>>
        /\ messages[Len(messages)] = NewMessage(outcome[c].username, outcome[c].message)
        /\ d \in PendingSet /\ hpc[d] = "done"

\* ---- C14
\* C14: every stored message has content; a Message outcome carries the
\* username and the non-empty content of the line its task read; the store
\* changes in no step but an accepting iteration of the loop (no task step
\* touches it), and such an iteration only drops messages from the front,
\* and only down to the capacity, and adds at the end the messages of the
\* tasks it reaps: what stays keeps its order and its text.
C14_MessageLifecycle ==
    /\ [](\A i \in 1..Len(messages) : messages[i].message # <<>>)
    /\ [](\A c \in Conns :
            outcome[c].kind = "Message" =>
                /\ outcome[c].message # <<>>
                /\ LineOf(c).tag = "line"
                /\ LineOf(c).line = outcome[c].username \o SEP \o outcome[c].message)
    /\ [][ /\ messages' # messages => Accept
           /\ Accept =>
                LET all == messages \o ReapedMessages
                    k == Len(all) - Len(messages')
                IN  /\ k >= 0
                    /\ k > 0 => Len(messages') = MAX_MESSAGES
                    /\ \A i \in 1..Len(messages') : messages'[i] = all[i + k]
         ]_vars

\* The message a task parsed from its line is the newest of a full store
\* whose oldest message was evicted to make room, the task being reaped.
C14_Witness ==
    \E c \in Conns :
        /\ outcome[c].kind = "Message" /\ c \notin PendingSet
        /\ Len(messages) = MAX_MESSAGES
        /\ messages[1] = Filler(2)[2]
        /\ messages[MAX_MESSAGES] = NewMessage(outcome[c].username, outcome[c].message)
        /\ LineOf(c).line = Display(messages[MAX_MESSAGES])

\* ---- C15
\* The text of the messages of snap as user u is sent them: one line each,
\* u's own under "you".
RepliedText(snap, u) ==
    Join([i \in 1..Len(snap) |->
            (IF snap[i].username = u THEN YOU ELSE snap[i].username)
                \o SEP \o snap[i].message],
         NL)

\* C15: under every interleaving of the tasks with each other and with the
\* loop, no task step changes the store, the pending list or the log; the
\* store changes only in an accepting iteration; the snapshot of a
\* dispatched task never changes; and the response a task wrote is the text
\* of its own snapshot, whatever the loop appended or evicted since.
C15_SnapshotIsolation ==
    /\ [](\A c \in Conns :
            Replied(c) => s2c[c] = RepliedText(snapshot[c], outcome[c].username))
    /\ [][ /\ \A c \in Conns : hpc[c] # "none" => snapshot'[c] = snapshot[c]
           /\ (\E c \in Conns : HandlerRead(c) \/ HandlerSend(c))
                => UNCHANGED <<messages, tasks, log>>
           /\ messages' # messages => Accept
         ]_vars

\* A task has written its response and waits for its reap, and the store
\* is no longer the one it was dispatched on: the loop changed it in an
\* iteration between the task's dispatch and its return, and the response is
\* the text of the snapshot, not of the store.
C15_Witness ==
    \E c \in Conns :
        /\ Replied(c) /\ c \in PendingSet
        /\ snapshot[c] # messages
        /\ s2c[c] = RepliedText(snapshot[c], outcome[c].username)
        /\ s2c[c] # RepliedText(messages, outcome[c].username)

\* ---- C16
\* Message m is the one some connection brought, and which connection.
IsTagged(m) == \E c \in Conns : m = Tagged(c)

ConnOf(m) == CHOOSE c \in Conns : m = Tagged(c)

\* The positions of store that hold the messages brought by connections.
TaggedAt(store) == {i \in 1..Len(store) : IsTagged(store[i])}

\* C16 as stated: of any two messages in the store, the one whose
\* connection was accepted earlier is positioned before the other.
C16_ArrivalOrder ==
    \A i, j \in TaggedAt(messages) :
        i < j => ConnOf(messages[i]) < ConnOf(messages[j])

\* C16, amended: the store is in reap order. The pending list is in dispatch
\* order, and after every accepting iteration a message reaped in it is
\* behind every message reaped in an earlier iteration and behind the
\* messages of earlier-dispatched tasks reaped in the same iteration, and
\* the messages of earlier iterations keep the order they had.
C16_ReapOrder ==
    /\ [](\A i, j \in 1..Len(tasks) : i < j => tasks[i] < tasks[j])
    /\ [][Accept =>
            \A i, j \in TaggedAt(messages') :
                i < j =>
                    LET p == ConnOf(messages'[i])
                        q == ConnOf(messages'[j])
                    IN  /\ p \in PendingSet => (q \in PendingSet /\ p < q)
                        /\ (p \notin PendingSet /\ q \notin PendingSet) =>
                            \E a, b \in TaggedAt(messages) :
                                a < b /\ messages[a] = Tagged(p) /\ messages[b] = Tagged(q)
         ]_vars

\* The message of connection 2 is in the store before the message of
\* connection 1: the task of 2 returned and was reaped while the task of 1,
\* dispatched first, was still running, and 1 was reaped an iteration later.
C16_Witness ==
    \E i, j \in TaggedAt(messages) :
        /\ i < j
        /\ messages[i] = Tagged(2) /\ messages[j] = Tagged(1)
        /\ 1 \notin PendingSet /\ 2 \notin PendingSet

\* ---- C17
\* The tasks that were dispatched and have not returned.
Unreturned == {c \in Conns : hpc[c] \in {"read", "send"}}

\* C17: no step takes a task that has not returned out of the pending list;
\* every task that has not returned is in it, so the list is at least as
\* long as the number of such tasks; and the loop accepts whatever the
\* length of the list: an accepting iteration is possible whenever a
\* connection waits, and it leaves the list one longer than the tasks it
\* found unreturned.
C17_StalledStays ==
    /\ [](Unreturned \subseteq PendingSet /\ Cardinality(Unreturned) <= Len(tasks))
    /\ []((running /\ backlog # <<>>) => ENABLED Accept)
    /\ [][ /\ \A c \in Conns :
                (c \in PendingSet /\ hpc'[c] # "done") => c \in PendingSet'
           /\ Accept => Len(tasks') = Len(StillPending) + 1
         ]_vars

\* Every connection the model opens was accepted and its peer has sent
\* nothing: all the tasks wait in read_message and all are pending.
C17_Witness ==
    /\ Len(tasks) = NConns
    /\ \A c \in 1..NConns :
        /\ tasks[c] = c
        /\ hpc[c] = "read"
        /\ c2s[c] = <<>> /\ ~cfin[c]

\* ---- C18
\* C18: an iteration whose accept fails changes nothing of the server: the
\* store, the pending list, the log, the snapshots and positions of the
\* tasks and the queue of waiting connections are as before, and the loop
\* still runs. The failed accept is the only step in which an I/O call fails
\* and neither a task nor a client moves.
C18_FailedAcceptFrame ==
    [][ /\ AcceptFails =>
            /\ UNCHANGED <<messages, tasks, log, snapshot, hpc, outcome, backlog, s2c, sclosed>>
            /\ running'
        /\ (faults' # faults /\ UNCHANGED <<hpc, cpc>>) =>
            /\ AcceptFails
            /\ UNCHANGED <<messages, tasks, log, snapshot, backlog>>
      ]_vars

\* An accept has failed (the one failure of the run, no task and no client
\* having had one) while a connection waited and a task had returned
\* Message: the task is still pending, its message not stored, the
\* connection still waiting and the loop running.
C18_Witness ==
    /\ faults = 1
    /\ running
    /\ \A c \in Conns : outcome[c].kind # "Error"
    /\ \A k \in Clients : cpc[k] \in {"prompt", "send", "recv"}
    /\ backlog # <<>>
    /\ \E c \in PendingSet :
        /\ hpc[c] = "done" /\ outcome[c].kind = "Message"
        /\ \A d \in Conns : hpc[d] # "none" => snapshot[d] = messages

\* ---- C19
\* Message m is somewhere in the store.
Stored(m) == \E i \in 1..Len(messages) : messages[i] = m

\* C19: a message is in the store only if the task that parsed it returned
\* Message after writing its whole response; a task whose write of the
\* response fails returns Error, whatever it parsed, and the message of a
\* task that parsed content and returned Error is never in the store.
C19_StoredOnlyIfSent ==
    /\ [](\A i \in TaggedAt(messages) :
            LET c == ConnOf(messages[i])
            IN  /\ outcome[c] = MessageOf(Tagged(c))
                /\ s2c[c] = RepliedText(snapshot[c], Tagged(c).username))
    /\ [](\A c \in Conns :
            (req[c].kind = "Message" /\ outcome[c].kind = "Error")
                => ~Stored(NewMessage(req[c].username, req[c].message)))
    /\ [][\A c \in Conns :
            (hpc[c] = "send" /\ hpc'[c] = "done" /\ faults' # faults)
                => outcome'[c].kind = "Error"
         ]_vars

\* A task parsed a message, failed to write its response and returned the
\* write's error; it was reaped, the error is logged and its message is not
\* in the store, while the message of another connection is.
C19_Witness ==
    \E c, d \in Conns :
        /\ req[c] = MessageOf(Tagged(c))
        /\ outcome[c] = Error("BrokenPipe")
        /\ hpc[c] = "done" /\ c \notin PendingSet
        /\ \E i \in 1..Len(log) : log[i] = LogLine("BrokenPipe")
        /\ ~Stored(Tagged(c))
        /\ d # c /\ Stored(Tagged(d))

\* ---- C20
\* Text pat occurs in text s.
OccursIn(pat, s) ==
    \E i \in 1..(Len(s) - Len(pat) + 1) : SubSeq(s, i, i + Len(pat) - 1) = pat

\* C20: what the server has written to connection c never contains the
\* message that c's own request carries, and contains the message of
\* another connection d only if d was accepted before c and d's task had
\* returned Message and been reaped; and the snapshot an accepting
\* iteration hands to the new task holds only messages of tasks that had
\* returned before that iteration, never one of the new connection.
C20_NoOwnMessage ==
    /\ [](\A c, d \in Conns :
            OccursIn(Tagged(d).message, s2c[c]) =>
                /\ d < c
                /\ outcome[d] = MessageOf(Tagged(d))
                /\ d \notin PendingSet)
    /\ [][Accept =>
            \A i \in TaggedAt(snapshot'[Head(backlog)]) :
                LET d == ConnOf(snapshot'[Head(backlog)][i])
                IN  d # Head(backlog) /\ hpc[d] = "done"
         ]_vars

\* Two connections sent messages and got whole responses: the response to
\* the first holds neither message, the response to the second, accepted
\* after the first task had returned, shows the first message (under "you",
\* both being user c) and not its own.
C20_Witness ==
    \E c, d \in Conns :
        /\ c < d
        /\ outcome[c] = MessageOf(Tagged(c)) /\ outcome[d] = MessageOf(Tagged(d))
        /\ ~OccursIn(Tagged(c).message, s2c[c])
        /\ ~OccursIn(Tagged(d).message, s2c[c])
        /\ OccursIn(YOU \o SEP \o Tagged(c).message, s2c[d])
        /\ ~OccursIn(Tagged(d).message, s2c[d])

\* ---- C21
\* The number of lines of text s: none when it is empty, else one more than
\* its newlines (the response has no newline after its last line).
LineCount(s) == IF s = <<>> THEN 0 ELSE NlCount(s) + 1

\* C21: the snapshot of every task holds at most MAX_MESSAGES (100)
\* messages and whatever the server has written to a connection has at most
\* 100 lines; the snapshot an accepting iteration hands to the new task is
\* the store as that iteration leaves it, after its eviction, however many
\* tasks it reaped.
C21_SnapshotBounded ==
    /\ [](\A c \in Conns :
            /\ Len(snapshot[c]) <= MAX_MESSAGES
            /\ LineCount(s2c[c]) <= MAX_MESSAGES)
    /\ [][Accept =>
            /\ snapshot'[Head(backlog)] = messages'
            /\ Len(snapshot'[Head(backlog)]) <= MAX_MESSAGES
         ]_vars

\* An iteration reaped three messages onto a store of 99 and evicted the
\* two oldest before copying: the task it dispatched has a snapshot of
\* exactly 100 messages, from the third old one to the message of
\* connection 3, and has written a response of exactly 100 lines.
C21_Witness ==
    \E c \in Conns :
        /\ Replied(c)
        /\ Len(snapshot[c]) = MAX_MESSAGES
        /\ snapshot[c][1] = Filler(3)[3]
        /\ snapshot[c][MAX_MESSAGES - 2] = Tagged(1)
        /\ snapshot[c][MAX_MESSAGES - 1] = Tagged(2)
        /\ snapshot[c][MAX_MESSAGES] = Tagged(3)
        /\ LineCount(s2c[c]) = MAX_MESSAGES

====
